---- MODULE Spec2Model ----
(***************************************************************************)
(* Model of src/server.py ("Morning Albert"): the feed tools               *)
(* get_ai_podcasts, get_ai_news, check_new_ai_pubs, suggest_case_studies   *)
(* and daily_digest.                                                       *)
(*                                                                         *)
(* A parsed feed entry is a record whose DOMAIN is the set of attributes   *)
(* the entry has: hasattr(entry, f) is  f \in DOMAIN entry.  Free text     *)
(* (summary, transcript, href, MIME type, author names) is a sequence of   *)
(* Unicode code points so that slicing, strip() and "in" are computed on   *)
(* every character Python knows; title, author, link and url are only      *)
(* interpolated and stay atomic strings.                                   *)
(* A time is a pair <<day, hour>>; the UTC clock counts hours.             *)
(***************************************************************************)
EXTENDS Integers, Sequences, FiniteSets, TLC

VARIABLES
    clock,      \* the system UTC clock, in hours
    pc,         \* "idle" | "podcasts" | "news" | "pubs" | "done"
    tool,       \* the tool the transport invoked ("none" while idle)
    args,       \* the bound arguments of the running category call
    src,        \* index in the registry of the next source to parse
    feed,       \* feed.entries of the source being iterated
    pos,        \* index in feed of the next entry
    acc,        \* episodes / news_items / papers
    today,      \* check_new_ai_pubs' local `today` (None elsewhere)
    digest,     \* daily_digest's frame: name, greeting, sections so far
    result,     \* the value returned to the transport (None until then)
    err,        \* "none", or the exception that left the tool
    log,        \* history: one record per entry the loop body completed
    parsed      \* history: feed.entries of each source parsed in this call

vars == <<clock, pc, tool, args, src, feed, pos, acc, today, digest, result, err, log,
          parsed>>

(* ---------------------------------------------------------------- bounds *)
MaxFeedLen == 2
MaxItems == 2
MaxClock == 48

(* ------------------------------------------------------- Python helpers *)
None == <<>>
Some(x) == <<x>>

HasAttr(entry, f) == f \in DOMAIN entry
GetAttr(entry, f, default) == IF f \in DOMAIN entry THEN entry[f] ELSE default

Min(a, b) == IF a < b THEN a ELSE b
Max(a, b) == IF a > b THEN a ELSE b

\* s[:n], negative n counting from the end
SlicePrefix(s, n) ==
    IF n >= 0 THEN SubSeq(s, 1, Min(n, Len(s)))
    ELSE SubSeq(s, 1, Max(Len(s) + n, 0))

\* the characters str.strip() removes (str.isspace): U+0009..U+000D,
\* U+001C..U+0020, U+0085, U+00A0, U+1680, U+2000..U+200A, U+2028, U+2029,
\* U+202F, U+205F, U+3000
IsSpace(c) ==
    c \in (9..13) \cup (28..32) \cup {133, 160, 5760} \cup (8192..8202)
          \cup {8232, 8233, 8239, 8287, 12288}

RECURSIVE LStrip(_)
LStrip(s) == IF s # <<>> /\ IsSpace(Head(s)) THEN LStrip(Tail(s)) ELSE s

RECURSIVE RStrip(_)
RStrip(s) ==
    IF s # <<>> /\ IsSpace(s[Len(s)]) THEN RStrip(SubSeq(s, 1, Len(s) - 1)) ELSE s

\* str.strip()
Strip(s) == RStrip(LStrip(s))

\* sub in s
Contains(sub, s) ==
    \E i \in 1..(Len(s) - Len(sub) + 1) : SubSeq(s, i, i + Len(sub) - 1) = sub

RECURSIVE Join(_, _)
\* sep.join(parts)
Join(sep, parts) ==
    IF parts = <<>> THEN <<>>
    ELSE IF Len(parts) = 1 THEN parts[1]
    ELSE parts[1] \o sep \o Join(sep, Tail(parts))

(* ------------------------------------------------------------- literals *)
\* "..."
Ellipsis == <<46, 46, 46>>
\* "No summary available"
NoSummary ==
    <<78, 111, 32, 115, 117, 109, 109, 97, 114, 121, 32,
      97, 118, 97, 105, 108, 97, 98, 108, 101>>
\* "Transcript available here: "
TranscriptHere ==
    <<84, 114, 97, 110, 115, 99, 114, 105, 112, 116, 32,
      97, 118, 97, 105, 108, 97, 98, 108, 101, 32,
      104, 101, 114, 101, 58, 32>>
\* "transcript"
TranscriptWord == <<116, 114, 97, 110, 115, 99, 114, 105, 112, 116>>
\* "None"
NoneStr == <<78, 111, 110, 101>>
\* ", "
CommaSpace == <<44, 32>>
\* "Unknown authors"
UnknownAuthors ==
    <<85, 110, 107, 110, 111, 119, 110, 32, 97, 117, 116, 104, 111, 114, 115>>
UnknownDate == [fmt |-> "Unknown date"]
NoLink == "No link available"

PodcastBudget == 640
NewsBudget == 220
HoursPerDay == 24

(* ------------------------------------------------------------- registry *)
NEWS_FEEDS == <<"huggingface", "kdnuggets", "openai", "towardsai", "googleai">>
PODCAST_FEEDS == <<"everydayai">>
PUBLICATION_FEEDS == <<"arxiv">>

(* ---------------------------------------------------------------- clock *)
\* datetime.utcnow().date()
UtcToday == clock \div HoursPerDay
\* datetime(*t[:6]).date()
DateOf(t) == t[1]
\* strftime("%Y-%m-%d")
DayStr(d) == [fmt |-> "%Y-%m-%d", day |-> d]
\* strftime("%Y-%m-%d %H:%M")
DayTimeStr(t) == [fmt |-> "%Y-%m-%d %H:%M", day |-> t[1], hour |-> t[2]]

(* ------------------------------------------------------- formatted items *)
Placeholder(text) == [placeholder |-> text]
NoPodcasts == Placeholder("No new podcast episodes found.")
NoNews == Placeholder("No AI news found today.")
NoPubs == Placeholder("No new AI publications today.")

\* Python truth value of an optional string
Truthy(opt) == opt # None /\ opt[1] # <<>>

\* str(x) inside an f-string, x an optional string
Str(opt) == IF opt = None THEN NoneStr ELSE opt[1]

\* dict.get(key) on a link or enclosure
Get(d, key) == IF key \in DOMAIN d THEN Some(d[key]) ELSE None

(* ------------------------------------------- get_ai_podcasts, loop body *)
\* line 51: the link is tagged as a transcript
IsTranscriptLink(link) ==
    \/ Get(link, "rel") = Some("transcript")
    \/ Contains(TranscriptWord, GetAttr(link, "type", <<>>))

\* lines 45-53: the transcript variable after the if/elif
FindTranscript(entry) ==
    IF HasAttr(entry, "transcript") THEN Some(entry.transcript)
    ELSE IF HasAttr(entry, "links") THEN
        LET hits == {i \in 1..Len(entry.links) : IsTranscriptLink(entry.links[i])}
        IN  IF hits = {} THEN None
            ELSE LET first == CHOOSE i \in hits : \A j \in hits : i <= j
                 IN  Some(TranscriptHere \o Str(Get(entry.links[first], "href")))
    ELSE None

\* lines 56-57: transcript, else stripped summary, else the placeholder
PodcastText(entry) ==
    LET transcript == FindTranscript(entry)
        summary == Strip(GetAttr(entry, "summary", <<>>))
    IN  IF Truthy(transcript) THEN transcript[1]
        ELSE IF summary # <<>> THEN summary
        ELSE NoSummary

\* PodcastLink taking the last enclosure instead of the first
PodcastLinkLastEnclosure(entry) ==
    LET link == GetAttr(entry, "link", "")
    IN  IF link # "" THEN link
        ELSE IF HasAttr(entry, "enclosures") /\ entry.enclosures # <<>>
             THEN GetAttr(entry.enclosures[Len(entry.enclosures)], "url", NoLink)
        ELSE NoLink

\* lines 60-66: direct link, else first enclosure's url, else placeholder
PodcastLink(entry) ==
    LET link == GetAttr(entry, "link", "")
    IN  IF link # "" THEN link
        ELSE IF HasAttr(entry, "enclosures") /\ entry.enclosures # <<>>
             THEN GetAttr(entry.enclosures[1], "url", NoLink)
        ELSE NoLink

\* PodcastBody appending the marker only to a text that was cut
PodcastBodyMarkWhenCut(text) ==
    IF Len(text) > PodcastBudget THEN SlicePrefix(text, PodcastBudget) \o Ellipsis ELSE text

\* line 68: text[:640] followed by "..."
PodcastBody(text) == SlicePrefix(text, PodcastBudget) \o Ellipsis

\* lines 37-68: the formatted episode
PodcastItem(entry) ==
    [ title |-> GetAttr(entry, "title", "No title"),
      date  |-> IF HasAttr(entry, "published_parsed")
                THEN DayStr(DateOf(entry.published_parsed)) ELSE UnknownDate,
      link  |-> PodcastLink(entry),
      body  |-> PodcastBody(PodcastText(entry)) ]

(* ----------------------------------------------- get_ai_news, loop body *)
\* lines 85-90: pub_date
PubDate(entry) ==
    IF HasAttr(entry, "published_parsed")
    THEN Some(DateOf(entry.published_parsed)) ELSE None

\* PassesFilter letting an entry without a date through
PassesFilterUndatedIncluded(today_only, pub_date, now) ==
    ~today_only \/ pub_date = None \/ pub_date[1] = now

\* line 95 / line 119: not today_only or (pub_date and pub_date == now)
PassesFilter(today_only, pub_date, now) ==
    ~today_only \/ (pub_date # None /\ pub_date[1] = now)

\* lines 97-98: the summary line, absent when the stripped summary is empty
NewsBody(summary) ==
    IF summary # <<>> THEN SlicePrefix(summary, NewsBudget) \o Ellipsis ELSE <<>>

\* line 96 / line 120: entry.title and entry.link are read without a default
NewsRaises(entry) == ~HasAttr(entry, "title") \/ ~HasAttr(entry, "link")

\* lines 85-90: pub_date_str
DayTimeOrUnknown(entry) ==
    IF HasAttr(entry, "published_parsed")
    THEN DayTimeStr(entry.published_parsed) ELSE UnknownDate

\* lines 85-98: the formatted news item
NewsItem(entry) ==
    [ title  |-> entry.title,
      author |-> GetAttr(entry, "author", "Unknown author"),
      date   |-> DayTimeOrUnknown(entry),
      link   |-> entry.link,
      body   |-> NewsBody(Strip(GetAttr(entry, "summary", <<>>))) ]

(* ----------------------------------------- check_new_ai_pubs, loop body *)
\* line 117: a.name of an author object without a name raises
AuthorsRaise(entry) ==
    HasAttr(entry, "authors")
    /\ \E i \in 1..Len(entry.authors) : "name" \notin DOMAIN entry.authors[i]

\* line 117: the joined author names, or the default
Authors(entry) ==
    IF HasAttr(entry, "authors")
    THEN Join(CommaSpace, [i \in 1..Len(entry.authors) |-> entry.authors[i].name])
    ELSE UnknownAuthors

\* line 120: the formatted paper
PubItem(entry) ==
    [ title   |-> entry.title,
      authors |-> Authors(entry),
      date    |-> IF PubDate(entry) # None THEN DayStr(PubDate(entry)[1]) ELSE UnknownDate,
      link    |-> entry.link ]

(* ------------------------------------------------ feed contents (inputs) *)
\* a text of n characters "babab abab ..." with blanks inside, none at either end
Text(n) ==
    [i \in 1..n |-> IF i % 5 = 0 /\ i < n THEN 32 ELSE IF i % 2 = 0 THEN 97 ELSE 98]

\* "\f hello world\r\n"
Hello == <<12, 32, 104, 101, 108, 108, 111, 32, 119, 111, 114, 108, 100, 13, 10>>
\* " \r\n" followed by U+00A0 and U+2003: whitespace only
Blank == <<32, 13, 10, 160, 8195>>

PodcastEntries ==
    { [ title |-> "Ep1", published_parsed |-> <<1, 5>>, link |-> "L1",
        transcript |-> Text(PodcastBudget + 60) ],
      [ summary |-> Hello ],
      [ title |-> "Ep3", transcript |-> <<>>, summary |-> <<115>>, enclosures |-> <<>>,
        links |-> << [rel |-> "transcript", href |-> <<117>>] >> ],
      [ link |-> "", enclosures |-> << [url |-> "E1"], [url |-> "E2"] >>,
        summary |-> Text(PodcastBudget),
        links |-> << [rel |-> "alternate", type |-> <<104, 116, 109, 108>>, href |-> <<118>>],
                     [type |-> <<120, 45>> \o TranscriptWord, href |-> <<119>>],
                     [rel |-> "transcript", href |-> <<122>>] >> ],
      [ published_parsed |-> <<2, 0>>, summary |-> Blank,
        enclosures |-> << [length |-> "1"] >>,
        links |-> << [rel |-> "alternate", href |-> <<118>>] >> ],
      [ title |-> "Ep6", links |-> << [rel |-> "transcript"] >>,
        summary |-> Text(PodcastBudget + 1) ] }

N1 == [ title |-> "A", link |-> "la", author |-> "au", published_parsed |-> <<1, 5>>,
        summary |-> Text(NewsBudget + 10) ]
N2 == [ title |-> "B", link |-> "lb", published_parsed |-> <<1, 22>> ]
N3 == [ title |-> "C", link |-> "lc", published_parsed |-> <<2, 0>>, summary |-> Hello ]
N4 == [ title |-> "D", link |-> "ld", author |-> "", summary |-> Blank ]
N5 == [ link |-> "le", published_parsed |-> <<1, 7>>, summary |-> <<115>> ]
N6 == [ title |-> "F", published_parsed |-> <<2, 1>> ]

\* what feedparser.parse may return as feed.entries of a news source
NewsFeedPool == { <<>>, <<N1, N2>>, <<N3, N4>>, <<N5, N6>> }

PubEntries ==
    { [ title |-> "P1", link |-> "a1", published_parsed |-> <<1, 5>>,
        authors |-> << [name |-> <<65, 110, 110>>], [name |-> <<66, 111>>] >> ],
      [ title |-> "P2", link |-> "a2", published_parsed |-> <<1, 22>> ],
      [ title |-> "P3", link |-> "a3", authors |-> <<>> ],
      [ title |-> "P4", link |-> "a4", published_parsed |-> <<2, 0>>,
        authors |-> << [email |-> "x"] >> ],
      [ link |-> "a5", published_parsed |-> <<1, 3>> ] }

\* all sequences over S of length at most n
SeqsUpTo(S, n) == UNION { [1..k -> S] : k \in 0..n }

PodcastFeedPool == SeqsUpTo(PodcastEntries, MaxFeedLen)
PubFeedPool == SeqsUpTo(PubEntries, MaxFeedLen)

\* the max_items values the transport passes
ItemArgs == (0 - 1)..MaxItems

(* ------------------------------------------------------ calls and frames *)
\* parameter names and defaults of the tools (lines 29, 76, 105, 126)
Defaults ==
    [ get_ai_podcasts      |-> [max_items |-> 5],
      get_ai_news          |-> [today_only |-> TRUE, max_items |-> 20],
      check_new_ai_pubs    |-> [today_only |-> TRUE, max_items |-> 8],
      suggest_case_studies |-> [max_items |-> 8] ]

\* Python's binding of keyword arguments: None stands for the TypeError
\* "got an unexpected keyword argument"
Bind(fn, kwargs) ==
    IF DOMAIN kwargs \subseteq DOMAIN Defaults[fn]
    THEN Some([p \in DOMAIN Defaults[fn] |->
                 IF p \in DOMAIN kwargs THEN kwargs[p] ELSE Defaults[fn][p]])
    ELSE None

Loop(fn) ==
    CASE fn = "get_ai_podcasts" -> "podcasts"
      [] fn = "get_ai_news" -> "news"
      [] fn = "check_new_ai_pubs" -> "pubs"

\* entry into a category function: empty accumulator, first source next;
\* check_new_ai_pubs reads the clock here (line 109)
Enter(fn, a) ==
    /\ pc' = Loop(fn)
    /\ args' = a
    /\ src' = 1
    /\ feed' = <<>>
    /\ pos' = 1
    /\ acc' = <<>>
    /\ today' = IF fn = "check_new_ai_pubs" THEN Some(UtcToday) ELSE None
    /\ log' = <<>>
    /\ parsed' = <<>>

\* an exception leaves the running tool and reaches the transport
Raise(e) ==
    /\ pc' = "done"
    /\ err' = e
    /\ UNCHANGED <<args, src, feed, pos, acc, today, log, parsed, digest, result>>

\* lines 129-137: the two static links, capped
CaseStudies(max_items) ==
    SlicePrefix(<< [url |-> "https://huggingface.co/blog?tag=case-studies"],
                   [url |-> "https://www.kdnuggets.com/"] >>, max_items)

\* line 144
Greeting(name) ==
    IF name # None /\ name[1] # "" THEN [greeting |-> "Good morning, ", name |-> name[1]]
    ELSE [greeting |-> "Good morning!"]

\* lines 146-149: the sub-calls daily_digest makes, in order
DigestCalls ==
    << [fn |-> "get_ai_podcasts", kwargs |-> [today_only |-> TRUE]],
       [fn |-> "get_ai_news", kwargs |-> [today_only |-> TRUE]],
       [fn |-> "check_new_ai_pubs", kwargs |-> [today_only |-> TRUE]],
       [fn |-> "suggest_case_studies", kwargs |-> [max_items |-> 8]] >>

DigestHeaders ==
    << "AI Podcasts' Summary (Today):", "AI News (Today):", "Publications (Today):",
       "Case Studies:" >>

\* lines 151-157: greeting, then each header followed by its joined items
Compose(frame) ==
    <<frame.greeting>> \o
    [i \in 1..Len(frame.sections) |-> [header |-> DigestHeaders[i], items |-> frame.sections[i]]]

\* daily_digest at the sub-call numbered frame.stage
DigestContinue(frame) ==
    LET c == DigestCalls[frame.stage]
        b == Bind(c.fn, c.kwargs)
    IN  IF b = None THEN
            /\ pc' = "done"
            /\ err' = "TypeError"
            /\ digest' = Some(frame)
            /\ UNCHANGED <<args, src, feed, pos, acc, today, log, parsed, result>>
        ELSE IF c.fn = "suggest_case_studies" THEN
            /\ pc' = "done"
            /\ result' = Some(Compose([frame EXCEPT
                              !.sections = Append(@, CaseStudies(b[1].max_items))]))
            /\ digest' = Some(frame)
            /\ UNCHANGED <<args, src, feed, pos, acc, today, log, parsed, err>>
        ELSE
            /\ Enter(c.fn, b[1])
            /\ digest' = Some(frame)
            /\ UNCHANGED <<result, err>>

\* return of a category function, to the transport or into daily_digest
Deliver(value) ==
    IF digest = None THEN
        /\ pc' = "done"
        /\ result' = Some(value)
        /\ UNCHANGED <<args, src, feed, pos, acc, today, log, parsed, digest, err>>
    ELSE
        DigestContinue([digest[1] EXCEPT !.sections = Append(@, value), !.stage = @ + 1])

(* ------------------------------------------------------- return values *)
\* line 71: episodes if episodes else the placeholder
PodcastsResult(episodes) == IF episodes # <<>> THEN episodes ELSE <<NoPodcasts>>

\* rank of a formatted date, undated items last
Recency(item) ==
    IF item.date = UnknownDate THEN 0 - 1 ELSE item.date.day * HoursPerDay + item.date.hour

RECURSIVE NewestFirst(_)
NewestFirst(items) ==
    IF items = <<>> THEN <<>>
    ELSE LET top == CHOOSE i \in DOMAIN items :
                        /\ \A j \in DOMAIN items : Recency(items[j]) <= Recency(items[i])
                        /\ \A j \in 1..(i - 1) : Recency(items[j]) < Recency(items[i])
         IN  <<items[top]>> \o
             NewestFirst(SubSeq(items, 1, top - 1) \o SubSeq(items, top + 1, Len(items)))

\* NewsResult with a sort by recency before the cap
NewsResultNewestFirst(news_items, max_items) ==
    IF news_items # <<>> THEN SlicePrefix(NewestFirst(news_items), max_items) ELSE <<NoNews>>

\* line 101: news_items[:max_items] if news_items else the placeholder
NewsResult(news_items, max_items) ==
    IF news_items # <<>> THEN SlicePrefix(news_items, max_items) ELSE <<NoNews>>

\* line 122: papers if papers else the placeholder
PubsResult(papers, max_items) == IF papers # <<>> THEN papers ELSE <<NoPubs>>

(* ----------------------------------------------------------------- Init *)
Init ==
    /\ clock = HoursPerDay + 23
    /\ pc = "idle"
    /\ tool = "none"
    /\ args = <<>>
    /\ src = 1
    /\ feed = <<>>
    /\ pos = 1
    /\ acc = <<>>
    /\ today = None
    /\ digest = None
    /\ result = None
    /\ err = "none"
    /\ log = <<>>
    /\ parsed = <<>>

(* -------------------------------------------------------------- actions *)
\* the UTC clock advances, also while a tool is running
Tick ==
    /\ clock < MaxClock
    /\ clock' = clock + 1
    /\ UNCHANGED <<pc, tool, args, src, feed, pos, acc, today, digest, result, err, log, parsed>>

\* the transport invokes get_ai_podcasts (line 29)
CallPodcasts ==
    /\ pc = "idle"
    /\ \E kw \in {<<>>} \cup {[max_items |-> m] : m \in ItemArgs} :
          Enter("get_ai_podcasts", Bind("get_ai_podcasts", kw)[1])
    /\ tool' = "get_ai_podcasts"
    /\ UNCHANGED <<clock, digest, result, err>>

\* the transport invokes get_ai_news (line 76)
CallNews ==
    /\ pc = "idle"
    /\ \E kw \in {[today_only |-> t, max_items |-> m] : t \in BOOLEAN, m \in ItemArgs} :
          Enter("get_ai_news", Bind("get_ai_news", kw)[1])
    /\ tool' = "get_ai_news"
    /\ UNCHANGED <<clock, digest, result, err>>

\* the transport invokes check_new_ai_pubs (line 105)
CallPubs ==
    /\ pc = "idle"
    /\ \E kw \in {<<>>} \cup
                 {[today_only |-> t, max_items |-> m] : t \in BOOLEAN, m \in ItemArgs} :
          Enter("check_new_ai_pubs", Bind("check_new_ai_pubs", kw)[1])
    /\ tool' = "check_new_ai_pubs"
    /\ UNCHANGED <<clock, digest, result, err>>

\* the transport invokes suggest_case_studies (lines 126-137), no fetch
CallCaseStudies ==
    /\ pc = "idle"
    /\ \E kw \in {<<>>} \cup {[max_items |-> m] : m \in ItemArgs} :
          /\ args' = Bind("suggest_case_studies", kw)[1]
          /\ result' = Some(CaseStudies(args'.max_items))
    /\ tool' = "suggest_case_studies"
    /\ pc' = "done"
    /\ UNCHANGED <<clock, src, feed, pos, acc, today, digest, err, log, parsed>>

\* the transport invokes daily_digest (lines 141-157), run up to its first
\* sub-call
CallDigest ==
    /\ pc = "idle"
    /\ \E name \in {None, Some(""), Some("Ada")} :
          DigestContinue([name |-> name, greeting |-> Greeting(name), stage |-> 1,
                          sections |-> <<>>])
    /\ tool' = "daily_digest"
    /\ UNCHANGED clock

\* feedparser.parse of the next podcast source, sliced to max_items (lines 35-36)
ParsePodcasts ==
    /\ pc = "podcasts"
    /\ pos > Len(feed)
    /\ src <= Len(PODCAST_FEEDS)
    /\ \E entries \in PodcastFeedPool :
          /\ feed' = SlicePrefix(entries, args.max_items)
          /\ parsed' = Append(parsed, entries)
    /\ pos' = 1
    /\ src' = src + 1
    /\ UNCHANGED <<clock, pc, tool, args, acc, today, digest, result, err, log>>

\* one iteration of the podcast entry loop (lines 36-69)
PodcastEntry ==
    /\ pc = "podcasts"
    /\ pos <= Len(feed)
    /\ acc' = Append(acc, PodcastItem(feed[pos]))
    /\ log' = Append(log, [src |-> src - 1, idx |-> pos, entry |-> feed[pos],
                           now |-> None, kept |-> TRUE])
    /\ pos' = pos + 1
    /\ UNCHANGED <<clock, pc, tool, args, src, feed, today, digest, result, err, parsed>>

\* line 71
ReturnPodcasts ==
    /\ pc = "podcasts"
    /\ pos > Len(feed)
    /\ src > Len(PODCAST_FEEDS)
    /\ Deliver(PodcastsResult(acc))
    /\ UNCHANGED <<clock, tool>>

\* feedparser.parse of the next news source (line 82)
ParseNews ==
    /\ pc = "news"
    /\ pos > Len(feed)
    /\ src <= Len(NEWS_FEEDS)
    /\ \E entries \in NewsFeedPool :
          /\ feed' = entries
          /\ parsed' = Append(parsed, entries)
    /\ pos' = 1
    /\ src' = src + 1
    /\ UNCHANGED <<clock, pc, tool, args, acc, today, digest, result, err, log>>

\* one iteration of the news entry loop (lines 83-99); the clock is read
\* in the condition of line 95
NewsEntry ==
    /\ pc = "news"
    /\ pos <= Len(feed)
    /\ LET entry == feed[pos]
           keep == PassesFilter(args.today_only, PubDate(entry), UtcToday)
       IN  IF keep /\ NewsRaises(entry) THEN
               /\ Raise("AttributeError")
               /\ UNCHANGED <<clock, tool>>
           ELSE
               /\ acc' = IF keep THEN Append(acc, NewsItem(entry)) ELSE acc
               /\ log' = Append(log, [src |-> src - 1, idx |-> pos, entry |-> entry,
                                      now |-> Some(UtcToday), kept |-> keep])
               /\ pos' = pos + 1
               /\ UNCHANGED <<clock, pc, tool, args, src, feed, today, digest, result, err, parsed>>

\* line 101
ReturnNews ==
    /\ pc = "news"
    /\ pos > Len(feed)
    /\ src > Len(NEWS_FEEDS)
    /\ Deliver(NewsResult(acc, args.max_items))
    /\ UNCHANGED <<clock, tool>>

\* feedparser.parse of the next publication source (line 112)
ParsePubs ==
    /\ pc = "pubs"
    /\ pos > Len(feed)
    /\ src <= Len(PUBLICATION_FEEDS)
    /\ \E entries \in PubFeedPool :
          /\ feed' = entries
          /\ parsed' = Append(parsed, entries)
    /\ pos' = 1
    /\ src' = src + 1
    /\ UNCHANGED <<clock, pc, tool, args, acc, today, digest, result, err, log>>

\* one iteration of the publication entry loop (lines 113-120)
PubsEntry ==
    /\ pc = "pubs"
    /\ pos <= Len(feed)
    /\ LET entry == feed[pos]
           keep == PassesFilter(args.today_only, PubDate(entry), today[1])
       IN  IF AuthorsRaise(entry) \/ (keep /\ NewsRaises(entry)) THEN
               /\ Raise("AttributeError")
               /\ UNCHANGED <<clock, tool>>
           ELSE
               /\ acc' = IF keep THEN Append(acc, PubItem(entry)) ELSE acc
               /\ log' = Append(log, [src |-> src - 1, idx |-> pos, entry |-> entry,
                                      now |-> Some(UtcToday), kept |-> keep])
               /\ pos' = pos + 1
               /\ UNCHANGED <<clock, pc, tool, args, src, feed, today, digest, result, err, parsed>>

\* line 122
ReturnPubs ==
    /\ pc = "pubs"
    /\ pos > Len(feed)
    /\ src > Len(PUBLICATION_FEEDS)
    /\ Deliver(PubsResult(acc, args.max_items))
    /\ UNCHANGED <<clock, tool>>

Next ==
    \/ Tick
    \/ CallPodcasts \/ CallNews \/ CallPubs \/ CallCaseStudies \/ CallDigest
    \/ ParsePodcasts \/ PodcastEntry \/ ReturnPodcasts
    \/ ParseNews \/ NewsEntry \/ ReturnNews
    \/ ParsePubs \/ PubsEntry \/ ReturnPubs

Spec == Init /\ [][Next]_vars

(* ------------------------------------------------- vocabulary of claims *)
CategoryTools == {"get_ai_podcasts", "get_ai_news", "check_new_ai_pubs"}
Returned == pc = "done" /\ err = "none" /\ result # None

Take(s, n) == SubSeq(s, 1, Min(n, Len(s)))
IsPrefixOf(p, s) == Len(p) <= Len(s) /\ SubSeq(s, 1, Len(p)) = p
EndsWithEllipsis(s) ==
    Len(s) >= 3 /\ s[Len(s) - 2] = 46 /\ s[Len(s) - 1] = 46 /\ s[Len(s)] = 46

RECURSIVE Flatten(_)
Flatten(ss) == IF ss = <<>> THEN <<>> ELSE Head(ss) \o Flatten(Tail(ss))

\* the UTC date a logged entry was compared with: the clock's date when the
\* entry was examined (get_ai_news), the date at entry into the call
\* (check_new_ai_pubs)
ComparedDate(r) == IF tool = "check_new_ai_pubs" THEN today[1] ELSE r.now[1]

\* the date filter as the specification words it, for one logged entry
SpecIncludes(r) ==
    \/ ~args.today_only
    \/ /\ "published_parsed" \in DOMAIN r.entry
       /\ r.entry.published_parsed[1] = ComparedDate(r)

WasKept(r) == r.kept

(* C1: every call of daily_digest returns, without raising, a text that
   starts with the greeting for its name argument. *)
C1_DigestAlwaysSucceeds ==
    (tool = "daily_digest" /\ pc = "done") =>
        /\ err = "none"
        /\ result # None
        /\ result[1][1] = Greeting(digest[1].name)

(* C2: for max_items >= 1 the list returned by each of the four list tools
   has at most max_items elements. *)
C2_MaxItemsRespected ==
    (Returned /\ tool \in CategoryTools \cup {"suggest_case_studies"}
              /\ args.max_items >= 1) =>
        Len(result[1]) <= args.max_items

(* C3: a category call never returns an empty list, whatever max_items is,
   and returns exactly one placeholder when no entry passed the filter. *)
C3_NeverEmpty ==
    (Returned /\ tool \in CategoryTools) =>
        /\ Len(result[1]) >= 1
        /\ (\A i \in DOMAIN log : ~log[i].kept) =>
               /\ Len(result[1]) = 1
               /\ "placeholder" \in DOMAIN result[1][1]

(* C4: in get_ai_news and check_new_ai_pubs the candidates are exactly the
   items of the entries for which today_only is false or the entry has a
   timestamp whose date, hour ignored, is the UTC date the call read from
   the clock; an entry without a timestamp is dropped under today_only and
   otherwise kept and shown with "Unknown date". *)
C4_DateFilter ==
    (tool \in {"get_ai_news", "check_new_ai_pubs"}) =>
        LET sel == SelectSeq(log, SpecIncludes)
        IN  /\ Len(acc) = Len(sel)
            /\ \A i \in DOMAIN sel :
                  /\ acc[i].title = sel[i].entry.title
                  /\ acc[i].link = sel[i].entry.link
                  /\ ("published_parsed" \notin DOMAIN sel[i].entry)
                        <=> (acc[i].date = UnknownDate)
            /\ \A i \in DOMAIN log :
                  ("published_parsed" \notin DOMAIN log[i].entry) =>
                        (log[i].kept <=> ~args.today_only)

C4_Witness ==
    /\ tool = "get_ai_news"
    /\ args.today_only
    /\ \E i, j \in DOMAIN log :
          /\ log[i].kept
          /\ log[i].entry.published_parsed[2] # clock % HoursPerDay
          /\ ~log[j].kept
          /\ "published_parsed" \notin DOMAIN log[j].entry
    /\ Len(acc) = 1

(* C5: an entry that lacks any of its fields never makes a category call
   raise. *)
C5_MissingFieldNeverRaises ==
    (tool \in CategoryTools) => err = "none"

RenderedWithin(body, text, budget) ==
    /\ Len(body) <= budget + 3
    /\ EndsWithEllipsis(body)
    /\ Len(body) - 3 = Min(Len(text), budget)
    /\ IsPrefixOf(SubSeq(body, 1, Len(body) - 3), text)

(* C6: a rendered body is the first min(length, budget) characters of its
   text followed by "...": at most budget + 3 characters, a prefix of the
   text before the marker, and always ending with the marker; the budget
   is 640 for podcasts and 220 for news summaries. *)
C6_Truncation ==
    /\ (tool = "get_ai_podcasts") =>
          /\ Len(acc) = Len(log)
          /\ \A i \in DOMAIN log :
                RenderedWithin(acc[i].body, PodcastText(log[i].entry), 640)
    /\ (tool = "get_ai_news") =>
          LET kept == SelectSeq(log, WasKept)
          IN  /\ Len(acc) = Len(kept)
              /\ \A i \in DOMAIN kept :
                    LET summary == Strip(GetAttr(kept[i].entry, "summary", <<>>))
                    IN  IF summary = <<>> THEN acc[i].body = <<>>
                        ELSE RenderedWithin(acc[i].body, summary, 220)

C6_Witness ==
    /\ tool = "get_ai_podcasts"
    /\ \E i, j \in DOMAIN log :
          /\ Len(PodcastText(log[i].entry)) > 640
          /\ Len(acc[i].body) = 643
          /\ Len(PodcastText(log[j].entry)) < 640
          /\ Len(acc[j].body) = Len(PodcastText(log[j].entry)) + 3

(* C7: the link of a podcast item is the entry's direct link when it has a
   non-empty one, otherwise the url of the first enclosure when the
   enclosure list exists and is non-empty (the placeholder when that
   enclosure carries no url), otherwise "No link available"; no podcast
   entry raises. *)
C7_LinkResolution ==
    (tool = "get_ai_podcasts") =>
        /\ err = "none"
        /\ Len(acc) = Len(log)
        /\ \A i \in DOMAIN log :
              LET e == log[i].entry
              IN  IF "link" \in DOMAIN e /\ e.link # "" THEN acc[i].link = e.link
                  ELSE IF "enclosures" \in DOMAIN e /\ Len(e.enclosures) > 0
                       THEN IF "url" \in DOMAIN e.enclosures[1]
                            THEN acc[i].link = e.enclosures[1].url
                            ELSE acc[i].link = "No link available"
                  ELSE acc[i].link = "No link available"

C7_Witness ==
    /\ tool = "get_ai_podcasts"
    /\ \E i, j \in DOMAIN log :
          /\ "link" \notin DOMAIN log[i].entry
          /\ "enclosures" \in DOMAIN log[i].entry
          /\ log[i].entry.enclosures = <<>>
          /\ acc[i].link = "No link available"
          /\ "enclosures" \in DOMAIN log[j].entry
          /\ Len(log[j].entry.enclosures) > 1
          /\ acc[j].link = log[j].entry.enclosures[1].url

(* C8: when get_ai_news returns items, for max_items >= 0 they are the first
   max_items of the entries that pass the date filter, taken source by
   source in registry order and entry by entry in feed order. *)
C8_OrderPreserved ==
    (Returned /\ tool = "get_ai_news") =>
        LET visited == Flatten(parsed)
            sel == SelectSeq(log, SpecIncludes)
            want == Take(sel, args.max_items)
        IN  /\ Len(parsed) = Len(NEWS_FEEDS)
            /\ Len(log) = Len(visited)
            /\ \A k \in DOMAIN log :
                  /\ log[k].entry = visited[k]
                  /\ log[k].entry = parsed[log[k].src][log[k].idx]
            /\ \A k \in 1..(Len(log) - 1) :
                  \/ log[k].src < log[k + 1].src
                  \/ log[k].src = log[k + 1].src /\ log[k].idx < log[k + 1].idx
            /\ (result[1] # <<NoNews>> /\ args.max_items >= 0) =>
                  /\ Len(result[1]) = Len(want)
                  /\ \A k \in DOMAIN want :
                        /\ result[1][k].title = want[k].entry.title
                        /\ result[1][k].link = want[k].entry.link
                        /\ result[1][k].date = DayTimeOrUnknown(want[k].entry)

C8_Witness ==
    /\ Returned
    /\ tool = "get_ai_news"
    /\ args.max_items = 2
    /\ Len(acc) > 2
    /\ Len(result[1]) = 2
    /\ \E i, j \in DOMAIN log :
          /\ log[i].kept /\ log[j].kept
          /\ log[i].src < log[j].src
          /\ "published_parsed" \in DOMAIN log[i].entry
          /\ "published_parsed" \in DOMAIN log[j].entry
          /\ log[i].entry.published_parsed[1] < log[j].entry.published_parsed[1]
          /\ result[1][1].title = log[i].entry.title
          /\ \A k \in DOMAIN result[1] : result[1][k].title # log[j].entry.title

SpecText(e) ==
    IF "transcript" \in DOMAIN e /\ e.transcript # <<>> THEN e.transcript
    ELSE IF "links" \in DOMAIN e /\ \E i \in DOMAIN e.links : IsTranscriptLink(e.links[i])
         THEN LET first == CHOOSE i \in DOMAIN e.links :
                              /\ IsTranscriptLink(e.links[i])
                              /\ \A j \in 1..(i - 1) : ~IsTranscriptLink(e.links[j])
              IN  TranscriptHere \o Str(Get(e.links[first], "href"))
    ELSE IF Strip(GetAttr(e, "summary", <<>>)) # <<>> THEN Strip(e.summary)
    ELSE NoSummary

(* C9: the body text of a podcast item is the explicit transcript when the
   entry has one; else the pointer to the first link tagged as a transcript;
   else the stripped summary when non-empty; else "No summary available";
   and it is never empty. *)
C9_BodyFallbackChain ==
    (tool = "get_ai_podcasts") =>
        \A i \in DOMAIN log :
            /\ acc[i].body = Take(SpecText(log[i].entry), 640) \o Ellipsis
            /\ Len(acc[i].body) > 3

(* C10: within one call of get_ai_news or check_new_ai_pubs with today_only
   set, two entries with the same publish date are both kept or both
   dropped, also when the clock passes midnight during the call. *)
C10_SingleToday ==
    (tool \in {"get_ai_news", "check_new_ai_pubs"} /\ args.today_only) =>
        \A i, j \in DOMAIN log :
            ( /\ "published_parsed" \in DOMAIN log[i].entry
              /\ "published_parsed" \in DOMAIN log[j].entry
              /\ log[i].entry.published_parsed[1] = log[j].entry.published_parsed[1] )
            => (log[i].kept <=> log[j].kept)

====
